---- MODULE Spec2Model ----
(***************************************************************************)
(* DC-dog-dashboard: the upload callback of src/DC/app.py                  *)
(* (parse_contents, get_indicator, update_dashboard) as a state machine,   *)
(* with the older classifier of src/app.py beside it.                      *)
(*                                                                         *)
(* Text is modelled by TLA+ strings (Len, \o and SubSeq work on them).     *)
(* Numbers are exact rationals in hundredths: the thresholds of the code   *)
(* (36, 37.5, 38.5, 50, 60, 90, 95, 100, 120) are exactly representable    *)
(* as floats, and float rounding is monotone, so a comparison of a float   *)
(* with a threshold is the comparison of the exact values.                 *)
(***************************************************************************)
EXTENDS Integers, Sequences, FiniteSets, TLC

VARIABLES
    pc,          \* position of the running update_dashboard call
    contents,    \* argument `contents` (the upload's payload, or None)
    filename,    \* argument `filename`
    df,          \* local `df`
    table,       \* local `table` (the DataTable preview)
    cards,       \* local `cards`
    time_col,    \* local `time_col`
    lat_col,     \* local `lat_col`
    lon_col,     \* local `lon_col`
    param_cols,  \* local `param_cols`
    color_col,   \* local `color_col`
    signal,      \* df["signal_color"], df["signal_status"]: one pair per row
    fig,         \* local `fig`
    outcome,     \* how the call ended: what it returned, or what it raised
    call,        \* SpecClassify / SpecInfer: the arguments of the pure call
    ret          \* SpecClassify / SpecInfer: what the pure call returned

vars == <<pc, contents, filename, df, table, cards, time_col, lat_col, lon_col,
          param_cols, color_col, signal, fig, outcome, call, ret>>

-----------------------------------------------------------------------------
(* Python values *)

\* None, for a variable that otherwise holds a record
None == [none |-> TRUE]

\* None, for a variable that otherwise holds a string
NoneStr == "<None>"

\* truth value of `x` for x a string or None (`if lat_col and ...`)
Truthy(x) == x # NoneStr /\ x # ""

\* a float: num/den hundredths
Num(h) == [kind |-> "num", num |-> h, den |-> 1]

\* float('nan'): the mean of a column with no numeric entry
NaN == [kind |-> "nan", num |-> 0, den |-> 1]

\* a pandas Series where a scalar was expected (a duplicated column label)
SeriesValue == [kind |-> "series", num |-> 0, den |-> 1]

\* the literal u.hh of the source, in hundredths
Dec(u, hh) == u * 100 + hh

\* c <= v, c < v, v <= c, v < c for a literal c: False when v is NaN
LitLe(c, v) == v.kind = "num" /\ c * v.den <= v.num
LitLt(c, v) == v.kind = "num" /\ c * v.den < v.num
LeLit(v, c) == v.kind = "num" /\ v.num <= c * v.den
LtLit(v, c) == v.kind = "num" /\ v.num < c * v.den
GeLit(v, c) == LitLe(c, v)

-----------------------------------------------------------------------------
(* Python str operations *)

\* `sub in s`
Contains(sub, s) ==
    \E i \in 0..(Len(s) - Len(sub)) : SubSeq(s, i + 1, i + Len(sub)) = sub

\* any(x in s for x in keywords)
ContainsAny(keywords, s) == \E k \in keywords : Contains(k, s)

\* s.endswith(suffix)
EndsWith(s, suffix) ==
    /\ Len(suffix) <= Len(s)
    /\ SubSeq(s, Len(s) - Len(suffix) + 1, Len(s)) = suffix

UpperCase == "ABCDEFGHIJKLMNOPQRSTUVWXYZ"
LowerCase == "abcdefghijklmnopqrstuvwxyz"

\* the index of character ch in alphabet, 0 when it is not in it
IndexIn(ch, alphabet) ==
    IF \E i \in 1..Len(alphabet) : SubSeq(alphabet, i, i) = ch
    THEN CHOOSE i \in 1..Len(alphabet) : SubSeq(alphabet, i, i) = ch
    ELSE 0

LowerCh(ch) ==
    LET i == IndexIn(ch, UpperCase)
    IN  IF i = 0 THEN ch ELSE SubSeq(LowerCase, i, i)

UpperCh(ch) ==
    LET i == IndexIn(ch, LowerCase)
    IN  IF i = 0 THEN ch ELSE SubSeq(UpperCase, i, i)

RECURSIVE Lower(_)
\* s.lower()
Lower(s) ==
    IF Len(s) = 0 THEN ""
    ELSE LowerCh(SubSeq(s, 1, 1)) \o Lower(SubSeq(s, 2, Len(s)))

IsSpace(ch) == ch = " "

RECURSIVE LStrip(_)
LStrip(s) ==
    IF Len(s) > 0 /\ IsSpace(SubSeq(s, 1, 1))
    THEN LStrip(SubSeq(s, 2, Len(s)))
    ELSE s

RECURSIVE RStrip(_)
RStrip(s) ==
    IF Len(s) > 0 /\ IsSpace(SubSeq(s, Len(s), Len(s)))
    THEN RStrip(SubSeq(s, 1, Len(s) - 1))
    ELSE s

\* s.strip()
Strip(s) == RStrip(LStrip(s))

\* s.capitalize()
Capitalize(s) ==
    IF Len(s) = 0 THEN ""
    ELSE UpperCh(SubSeq(s, 1, 1)) \o Lower(SubSeq(s, 2, Len(s)))

-----------------------------------------------------------------------------
(* get_indicator *)

\* bool() of a Series comparison: the exception get_indicator dies of
RaisedValueError == <<"ValueError", "The truth value of a Series is ambiguous">>

\* TempLadder with the upper edge of Normal left out (value < 37.5)
TempLadderExclusive(value) ==
    IF LitLe(Dec(36, 0), value) /\ LtLit(value, Dec(37, 50)) THEN <<"green", "Normal">>
    ELSE IF LitLt(Dec(37, 50), value) /\ LeLit(value, Dec(38, 50)) THEN <<"orange", "Caution">>
    ELSE <<"red", "Critical">>

\* the three threshold ladders of get_indicator, src/DC/app.py:66-68, 71-73, 76-78
TempLadder(value) ==
    IF LitLe(Dec(36, 0), value) /\ LeLit(value, Dec(37, 50)) THEN <<"green", "Normal">>
    ELSE IF LitLt(Dec(37, 50), value) /\ LeLit(value, Dec(38, 50)) THEN <<"orange", "Caution">>
    ELSE <<"red", "Critical">>

HeartLadder(value) ==
    IF LitLe(Dec(60, 0), value) /\ LeLit(value, Dec(100, 0)) THEN <<"green", "Normal">>
    ELSE IF \/ (LitLt(Dec(100, 0), value) /\ LeLit(value, Dec(120, 0)))
            \/ (LitLe(Dec(50, 0), value) /\ LtLit(value, Dec(60, 0)))
         THEN <<"orange", "Caution">>
    ELSE <<"red", "Critical">>

OxygenLadder(value) ==
    IF GeLit(value, Dec(95, 0)) THEN <<"green", "Normal">>
    ELSE IF LitLe(Dec(90, 0), value) /\ LtLit(value, Dec(95, 0)) THEN <<"orange", "Caution">>
    ELSE <<"red", "Critical">>

\* a ladder's first comparison of a Series raises; a scalar goes down the ladder
Compare(ladder, value) ==
    IF value.kind = "series" THEN RaisedValueError ELSE ladder

\* get_indicator with the heart group tested before the temperature group
get_indicator_heart_first(param, value) ==
    IF \/ Contains("heart", param) \/ Contains("hr", param)
       \/ Contains("bpm", param) \/ Contains("pulse", param)
    THEN Compare(HeartLadder(value), value)
    ELSE IF Contains("temp", param) THEN Compare(TempLadder(value), value)
    ELSE IF \/ Contains("spo2", param) \/ Contains("oxygen", param)
            \/ Contains("o2", param)
         THEN Compare(OxygenLadder(value), value)
    ELSE <<"gray", "Unknown">>

\* get_indicator(param, value) of src/DC/app.py
get_indicator(param, value) ==
    IF Contains("temp", param) THEN Compare(TempLadder(value), value)
    ELSE IF \/ Contains("heart", param) \/ Contains("hr", param)
            \/ Contains("bpm", param) \/ Contains("pulse", param)
         THEN Compare(HeartLadder(value), value)
    ELSE IF \/ Contains("spo2", param) \/ Contains("oxygen", param)
            \/ Contains("o2", param)
         THEN Compare(OxygenLadder(value), value)
    ELSE <<"gray", "Unknown">>

\* get_indicator(param, value) of src/app.py, the older variant
get_indicator_v1(param, value) ==
    IF Contains("temp", param) THEN Compare(TempLadder(value), value)
    ELSE IF Contains("heart", param) \/ Contains("hr", param)
         THEN Compare(HeartLadder(value), value)
    ELSE IF Contains("spo2", param) \/ Contains("oxygen", param)
         THEN Compare(OxygenLadder(value), value)
    ELSE <<"gray", "Unknown">>

-----------------------------------------------------------------------------
(* pandas: the DataFrame of a call *)

\* a DataFrame: its column labels in order, and its rows (one cell per column)
DataFrame(columns, rows) == [columns |-> columns, rows |-> rows]

\* the positions of the columns labelled col
Positions(frame, col) == {j \in 1..Len(frame.columns) : frame.columns[j] = col}

RECURSIVE SumNum(_, _, _)
\* the sum of the numeric cells of column j, rows 1..n
SumNum(frame, j, n) ==
    IF n = 0 THEN 0
    ELSE SumNum(frame, j, n - 1)
         + (IF frame.rows[n][j].kind = "num" THEN frame.rows[n][j].num ELSE 0)

\* the number of numeric cells of column j
CountNum(frame, j) ==
    Cardinality({i \in 1..Len(frame.rows) : frame.rows[i][j].kind = "num"})

\* Series.mean() of column j: missing entries are skipped, nan when none is left
SeriesMean(frame, j) ==
    IF CountNum(frame, j) = 0 THEN NaN
    ELSE [kind |-> "num", num |-> SumNum(frame, j, Len(frame.rows)),
          den |-> CountNum(frame, j)]

\* df[col].mean(): a scalar for one column, a Series when the label is duplicated
Mean(frame, col) ==
    IF Cardinality(Positions(frame, col)) = 1
    THEN SeriesMean(frame, CHOOSE j \in Positions(frame, col) : TRUE)
    ELSE SeriesValue

\* row[col] of row i: a scalar for one column, a Series when the label is duplicated
RowValue(frame, i, col) ==
    IF Cardinality(Positions(frame, col)) = 1
    THEN frame.rows[i][CHOOSE j \in Positions(frame, col) : TRUE]
    ELSE SeriesValue

\* df.head(n)
HeadRows == 10
head(frame, n) ==
    DataFrame(frame.columns,
              SubSeq(frame.rows, 1, IF Len(frame.rows) < n THEN Len(frame.rows) ELSE n))

-----------------------------------------------------------------------------
(* parse_contents *)

RECURSIVE Split(_, _)
\* s.split(sep) for a one-character sep
Split(s, sep) ==
    IF ~Contains(sep, s) THEN <<s>>
    ELSE LET i == CHOOSE k \in 1..Len(s) :
                      /\ SubSeq(s, k, k) = sep
                      /\ \A m \in 1..(k - 1) : SubSeq(s, m, m) # sep
         IN  <<SubSeq(s, 1, i - 1)>> \o Split(SubSeq(s, i + 1, Len(s)), sep)

\* base64.b64decode accepts a body of whole 4-character groups
B64Ok(body) == Len(body) % 4 = 0

\* the bytes b64decode returns: none for an empty body, else the upload's blob
B64Decode(payload, body) ==
    IF Len(body) = 0 THEN [format |-> "empty", frame |-> DataFrame(<<>>, <<>>)]
    ELSE payload.blob

\* what parse_contents hands back: a (df, err) pair, or an exception
Parsed(frame) == [kind |-> "return", df |-> frame, err |-> NoneStr]
Failed(message) == [kind |-> "return", df |-> None, err |-> message]
Raises(exc) == [kind |-> "raise", exc |-> exc]

\* pd.read_csv(io.StringIO(decoded.decode('utf-8')))
ReadCsv(decoded) ==
    CASE decoded.format = "csv" -> Parsed(decoded.frame)
      [] decoded.format = "empty" -> Raises("No columns to parse from file")
      [] OTHER -> Raises("'utf-8' codec can't decode byte")

\* pd.read_excel(io.BytesIO(decoded))
ReadExcel(decoded) ==
    CASE decoded.format = "xlsx" -> Parsed(decoded.frame)
      [] OTHER -> Raises("Excel file format cannot be determined")

\* the try block of parse_contents: every exception of a reader becomes an err
\* (the messages are written here without the pictograph the code puts first)
TryRead(decoded, name) ==
    LET r == IF EndsWith(name, ".csv") THEN ReadCsv(decoded)
             ELSE IF EndsWith(name, ".xls") \/ EndsWith(name, ".xlsx")
                  THEN ReadExcel(decoded)
             ELSE Failed("Unsupported file type: " \o name)
    IN  IF r.kind = "raise" THEN Failed("Error reading file: " \o r.exc) ELSE r

\* parse_contents(contents, filename): split and b64decode run before the try
parse_contents(payload, name) ==
    LET parts == Split(payload.text, ",")
    IN  IF Len(parts) < 2 THEN Raises("ValueError: not enough values to unpack")
        ELSE IF Len(parts) > 2 THEN Raises("ValueError: too many values to unpack")
        ELSE IF ~B64Ok(parts[2]) THEN Raises("binascii.Error: Incorrect padding")
        ELSE TryRead(B64Decode(payload, parts[2]), name)

-----------------------------------------------------------------------------
(* update_dashboard: the column roles *)

\* the keyword list of lines 116 and 138 (the same words in two orders)
ParamKeywords == {"temp", "heart", "hr", "spo2", "oxygen", "o2", "pulse", "bpm"}

IsTime(c) == Contains("time", c) \/ Contains("timestamp", c)
IsLat(c) == c \in {"lat", "latitude"}
IsLon(c) == c \in {"lon", "long", "longitude", "lng"}
IsParam(c) == ContainsAny(ParamKeywords, c)

\* next(iter(s), None) for a list s of strings
NextOrNone(s) == IF Len(s) = 0 THEN NoneStr ELSE s[1]

\* time_col = next((c for c in df.columns if 'time' in c or 'timestamp' in c), None)
TimeCol(columns) == NextOrNone(SelectSeq(columns, IsTime))

\* LatCol with a substring test ('lat' in c) in place of the membership test
LatColSubstring(columns) ==
    LET HasLat(c) == Contains("lat", c)
    IN  NextOrNone(SelectSeq(columns, HasLat))

\* lat_col = next((c for c in df.columns if c in ['lat', 'latitude']), None)
LatCol(columns) == NextOrNone(SelectSeq(columns, IsLat))

\* lon_col = next((c for c in df.columns if c in ['lon', 'long', 'longitude', 'lng']), None)
LonCol(columns) == NextOrNone(SelectSeq(columns, IsLon))

\* param_cols = [c for c in df.columns if any(x in c for x in [...])]
ParamCols(columns) == SelectSeq(columns, IsParam)

\* color_col = param_cols[0] if param_cols else None
ColorCol(params) == IF Len(params) > 0 THEN params[1] ELSE NoneStr

\* lines 133-139 together
InferColumns(columns) ==
    [time_col |-> TimeCol(columns), lat_col |-> LatCol(columns),
     lon_col |-> LonCol(columns), param_cols |-> ParamCols(columns),
     color_col |-> ColorCol(ParamCols(columns))]

-----------------------------------------------------------------------------
(* update_dashboard: the pieces of its body *)

\* NormalizeLabel without the strip()
NormalizeLabelLowerOnly(c) == Lower(c)

\* df.columns = [c.lower().strip() for c in df.columns]
NormalizeLabel(c) == Strip(Lower(c))
Normalize(frame) ==
    DataFrame([j \in 1..Len(frame.columns) |-> NormalizeLabel(frame.columns[j])],
              frame.rows)

\* dash_table.DataTable(data=df.head(10).to_dict('records'), columns=[...])
DataTable(frame) ==
    [kind |-> "DataTable", columns |-> frame.columns,
     data |-> head(frame, HeadRows).rows, page_size |-> HeadRows]

\* the card of one column: mean_val = df[col].mean(); get_indicator(col, mean_val)
Card(frame, col) ==
    LET mean_val == Mean(frame, col)
        ind == get_indicator(col, mean_val)
    IN  [title |-> Capitalize(col), mean_val |-> mean_val,
         color |-> ind[1], status |-> ind[2]]

\* the card loop, lines 114-129: one card per column the keyword test lets in
Cards(frame) ==
    LET cols == SelectSeq(frame.columns, IsParam)
    IN  [k \in 1..Len(cols) |-> Card(frame, cols[k])]

\* the loop dies in get_indicator when a card's column label is duplicated
CardsRaise(frame) ==
    \E k \in 1..Len(frame.columns) :
        /\ IsParam(frame.columns[k])
        /\ get_indicator(frame.columns[k], Mean(frame, frame.columns[k])) = RaisedValueError

\* df.apply(lambda row: get_indicator(color_col, row[color_col]), axis=1)
RowIndicators(frame, col) ==
    [i \in 1..Len(frame.rows) |-> get_indicator(col, RowValue(frame, i, col))]

\* lines 144-147 raise: no row to unpack two columns from, or a Series compared
SignalRaises(frame, col) ==
    \/ Len(frame.rows) = 0
    \/ \E i \in 1..Len(frame.rows) : RowIndicators(frame, col)[i] = RaisedValueError

\* the `if lat_col and lon_col and time_col and color_col` of line 142
MapWanted(lat, lon, time, color) ==
    Truthy(lat) /\ Truthy(lon) /\ Truthy(time) /\ Truthy(color)

\* px.scatter_mapbox(...), centred on the first row (lines 149-199)
MapFigure(frame, lat, lon, time, color) ==
    [kind |-> "scatter_mapbox", lat |-> lat, lon |-> lon, color |-> "signal_color",
     animation_frame |-> time, hover |-> color,
     center |-> <<RowValue(frame, 1, lat), RowValue(frame, 1, lon)>>]

\* the fallback of lines 204-206: every column but time_col, against time_col
\* (against the index when time_col is None)
LineFigure(frame, time) ==
    LET NotTime(c) == c # time
    IN  [kind |-> "line", x |-> time, y |-> SelectSeq(frame.columns, NotTime)]

\* px.scatter()
BlankFigure == [kind |-> "scatter"]

\* the "" the callback returns for a Div's children
NoChildren == [kind |-> "empty"]

\* dbc.Row(cards, justify='center')
Row(children) == [kind |-> "Row", children |-> children]

\* the 4-tuple the callback returns, and the exception it may die of instead
Returned(file_info, data_preview, indicator_cards, figure) ==
    [kind |-> "return", file_info |-> file_info, data_preview |-> data_preview,
     indicator_cards |-> indicator_cards, figure |-> figure]
RaisedOut(exc) == [kind |-> "raise", exc |-> exc]

-----------------------------------------------------------------------------
(* the uploads the model draws from *)

MaxCols == 4    \* columns of an uploaded table
MaxRows == 2    \* rows of an uploaded table

\* column labels as a file spells them, before normalisation
GpsLabels == {"Timestamp", " Lat", "lon"}
ReadingLabels == {"HR", " hr", "Temp "}
RawLabels == GpsLabels \cup ReadingLabels

\* a header: up to MaxCols different labels in any order
Headers ==
    {h \in UNION {[1..n -> RawLabels] : n \in 1..MaxCols} :
        \A i, j \in 1..Len(h) : h[i] = h[j] => i = j}

\* the reading of a row: 65, 105, or missing
Readings == {NaN, Num(Dec(65, 0)), Num(Dec(105, 0))}

\* row i of a table: its reading in every reading column, i elsewhere
TableRow(h, i, reading) ==
    [j \in 1..Len(h) |-> IF h[j] \in ReadingLabels THEN reading ELSE Num(Dec(i, 0))]

\* the readings of a table, row by row
ReadingLists == UNION {[1..n -> Readings] : n \in 0..MaxRows}

\* the table with header h and the readings r
Table(h, r) == DataFrame(h, [i \in 1..Len(r) |-> TableRow(h, i, r[i])])

\* the tables of a GPS walk with one reading column
WalkHeader == <<"Timestamp", " Lat", "lon", "HR">>
Walks == {Table(WalkHeader, r) : r \in ReadingLists}

\* what the base64 body of an upload decodes to: a walk as delimited text or as
\* a spreadsheet, or bytes that are neither
Blobs ==
    {[format |-> f, frame |-> t] : f \in {"csv", "xlsx"}, t \in Walks}
    \cup {[format |-> "binary", frame |-> DataFrame(<<>>, <<>>)]}

WellFormedText == "data:text/csv;base64,QUJD"
\* no comma; two commas; a body that is no whole number of groups; an empty body
OtherTexts ==
    {"QUJD", "data:text/csv;name=a,b;base64,QUJD", "data:text/csv;base64,QUJ",
     "data:text/csv;base64,"}

Payload(text, blob) == [text |-> text, blob |-> blob]

Filenames == {"walk.csv", "walk.xlsx", "walk.xls", "data.txt"}

-----------------------------------------------------------------------------
(* update_dashboard, step by step *)

Locals == <<df, table, cards, time_col, lat_col, lon_col, param_cols, color_col,
            signal, fig>>

\* Dash calls the callback: at page load with no contents, then at every upload
Upload(c, f) ==
    /\ pc' = "start"
    /\ contents' = c
    /\ filename' = f
    /\ df' = None
    /\ table' = None
    /\ cards' = <<>>
    /\ time_col' = NoneStr
    /\ lat_col' = NoneStr
    /\ lon_col' = NoneStr
    /\ param_cols' = <<>>
    /\ color_col' = NoneStr
    /\ signal' = None
    /\ fig' = None
    /\ outcome' = None
    /\ UNCHANGED <<call, ret>>

\* the page loads: the callback runs with no contents
PageLoad == pc = "idle" /\ Upload(None, NoneStr)

\* the user drops a table saved as delimited text under a .csv name
CsvDrop ==
    /\ pc = "idle"
    /\ \E h \in Headers, r \in ReadingLists :
          Upload(Payload(WellFormedText, [format |-> "csv", frame |-> Table(h, r)]),
                 "walk.csv")

\* the user drops a file of any name and any text, carrying a walk or other bytes
FileDrop ==
    /\ pc = "idle"
    /\ \E x \in {WellFormedText} \cup OtherTexts, b \in Blobs, f \in Filenames :
          Upload(Payload(x, b), f)

\* lines 95-96
NoContents ==
    /\ pc = "start"
    /\ contents = None
    /\ outcome' = Returned("", NoChildren, NoChildren, BlankFigure)
    /\ pc' = "done"
    /\ UNCHANGED <<contents, filename, Locals, call, ret>>

\* lines 98-100
Parse ==
    /\ pc = "start"
    /\ contents # None
    /\ LET r == parse_contents(contents, filename)
       IN  IF r.kind = "raise"
           THEN /\ outcome' = RaisedOut(r.exc)
                /\ pc' = "done"
                /\ df' = df
           ELSE IF Truthy(r.err)
           THEN /\ outcome' = Returned(r.err, NoChildren, NoChildren, BlankFigure)
                /\ pc' = "done"
                /\ df' = df
           ELSE /\ df' = r.df
                /\ pc' = "normalize"
                /\ outcome' = outcome
    /\ UNCHANGED <<contents, filename, table, cards, time_col, lat_col, lon_col,
                   param_cols, color_col, signal, fig, call, ret>>

\* line 102
NormalizeColumns ==
    /\ pc = "normalize"
    /\ df' = Normalize(df)
    /\ pc' = "preview"
    /\ UNCHANGED <<contents, filename, table, cards, time_col, lat_col, lon_col,
                   param_cols, color_col, signal, fig, outcome, call, ret>>

\* lines 105-111
Preview ==
    /\ pc = "preview"
    /\ table' = DataTable(df)
    /\ pc' = "cards"
    /\ UNCHANGED <<contents, filename, df, cards, time_col, lat_col, lon_col,
                   param_cols, color_col, signal, fig, outcome, call, ret>>

\* lines 114-129
BuildCards ==
    /\ pc = "cards"
    /\ IF CardsRaise(df)
       THEN /\ outcome' = RaisedOut("ValueError")
            /\ pc' = "done"
            /\ cards' = cards
       ELSE /\ cards' = Cards(df)
            /\ pc' = "infer"
            /\ outcome' = outcome
    /\ UNCHANGED <<contents, filename, df, table, time_col, lat_col, lon_col,
                   param_cols, color_col, signal, fig, call, ret>>

\* lines 133-139
Infer ==
    /\ pc = "infer"
    /\ LET r == InferColumns(df.columns)
       IN  /\ time_col' = r.time_col
           /\ lat_col' = r.lat_col
           /\ lon_col' = r.lon_col
           /\ param_cols' = r.param_cols
           /\ color_col' = r.color_col
    /\ pc' = "chart"
    /\ UNCHANGED <<contents, filename, df, table, cards, signal, fig, outcome,
                   call, ret>>

\* lines 142-199
AnimatedMap ==
    /\ pc = "chart"
    /\ MapWanted(lat_col, lon_col, time_col, color_col)
    /\ IF SignalRaises(df, color_col)
       THEN /\ outcome' = RaisedOut("ValueError")
            /\ pc' = "done"
            /\ UNCHANGED <<signal, fig>>
       ELSE /\ signal' = [tags |-> RowIndicators(df, color_col)]
            /\ fig' = MapFigure(df, lat_col, lon_col, time_col, color_col)
            /\ pc' = "return"
            /\ outcome' = outcome
    /\ UNCHANGED <<contents, filename, df, table, cards, time_col, lat_col, lon_col,
                   param_cols, color_col, call, ret>>

\* lines 202-206
TimeSeries ==
    /\ pc = "chart"
    /\ ~MapWanted(lat_col, lon_col, time_col, color_col)
    /\ fig' = LineFigure(df, time_col)
    /\ pc' = "return"
    /\ UNCHANGED <<contents, filename, df, table, cards, time_col, lat_col, lon_col,
                   param_cols, color_col, signal, outcome, call, ret>>

\* lines 208-213
Return ==
    /\ pc = "return"
    /\ outcome' = Returned("Uploaded: " \o filename, table, Row(cards), fig)
    /\ pc' = "done"
    /\ UNCHANGED <<contents, filename, Locals, call, ret>>

\* Dash takes what the call returned or raised; the call's frame is gone
Respond ==
    /\ pc = "done"
    /\ pc' = "idle"
    /\ contents' = None
    /\ filename' = NoneStr
    /\ df' = None
    /\ table' = None
    /\ cards' = <<>>
    /\ time_col' = NoneStr
    /\ lat_col' = NoneStr
    /\ lon_col' = NoneStr
    /\ param_cols' = <<>>
    /\ color_col' = NoneStr
    /\ signal' = None
    /\ fig' = None
    /\ outcome' = None
    /\ UNCHANGED <<call, ret>>

\* no call is running
Idle ==
    /\ pc = "idle"
    /\ contents = None
    /\ filename = NoneStr
    /\ df = None
    /\ table = None
    /\ cards = <<>>
    /\ time_col = NoneStr
    /\ lat_col = NoneStr
    /\ lon_col = NoneStr
    /\ param_cols = <<>>
    /\ color_col = NoneStr
    /\ signal = None
    /\ fig = None
    /\ outcome = None

Init == Idle /\ call = None /\ ret = None

Next ==
    \/ PageLoad
    \/ CsvDrop
    \/ FileDrop
    \/ NoContents
    \/ Parse
    \/ NormalizeColumns
    \/ Preview
    \/ BuildCards
    \/ Infer
    \/ AnimatedMap
    \/ TimeSeries
    \/ Return
    \/ Respond

Spec == Init /\ [][Next]_vars

-----------------------------------------------------------------------------
(* get_indicator alone: every label of ClassifyLabels against every value of   *)
(* the grid                                                                    *)

GridMargin == 100   \* hundredths either side of every threshold

Thresholds ==
    {Dec(36, 0), Dec(37, 50), Dec(38, 50), Dec(50, 0), Dec(60, 0), Dec(90, 0),
     Dec(95, 0), Dec(100, 0), Dec(120, 0)}

Grid ==
    UNION {(t - GridMargin)..(t + GridMargin) : t \in Thresholds}
    \cup {-100, 0, Dec(71, 67), Dec(500, 0)}

ClassifyValues == {Num(h) : h \in Grid} \cup {NaN}

ClassifyLabels ==
    {"temp", "temperature", "body_temp", "heart", "heart_rate", "heartrate", "hr",
     "bpm", "pulse", "spo2", "oxygen", "o2", "temp_hr", "hr_temp", "pulse_o2",
     "o2_pulse", "spo2_temp", "oxygen_bpm", "humidity", "lat", "timestamp", ""}

InitClassify ==
    /\ Idle
    /\ call \in {[param |-> l, value |-> v] : l \in ClassifyLabels, v \in ClassifyValues}
    /\ ret = None

\* get_indicator of src/DC/app.py is called
Classify ==
    /\ ret = None
    /\ ret' = [fn |-> "DC", result |-> get_indicator(call.param, call.value)]
    /\ UNCHANGED <<pc, contents, filename, Locals, outcome, call>>

\* get_indicator of src/app.py is called
ClassifyV1 ==
    /\ ret = None
    /\ ret' = [fn |-> "v1", result |-> get_indicator_v1(call.param, call.value)]
    /\ UNCHANGED <<pc, contents, filename, Locals, outcome, call>>

NextClassify == Classify \/ ClassifyV1

SpecClassify == InitClassify /\ [][NextClassify]_vars

-----------------------------------------------------------------------------
(* the column roles alone: every list of up to MaxLabels normalised labels *)

MaxLabels == 4

InferLabels ==
    {"timestamp", "uptime", "lat", "latitude", "lateral", "lon", "lng",
     "heartrate", "temp", "humidity"}

InitInfer ==
    /\ Idle
    /\ call \in {[columns |-> s] : s \in UNION {[1..n -> InferLabels] : n \in 0..MaxLabels}}
    /\ ret = None

\* lines 133-139 run on the labels
InferCall ==
    /\ ret = None
    /\ ret' = InferColumns(call.columns)
    /\ UNCHANGED <<pc, contents, filename, Locals, outcome, call>>

NextInfer == InferCall

SpecInfer == InitInfer /\ [][NextInfer]_vars

-----------------------------------------------------------------------------
(* The threshold table of the specification, in hundredths *)

TableTemp(h) ==
    IF 3600 <= h /\ h <= 3750 THEN "Normal"
    ELSE IF 3750 < h /\ h <= 3850 THEN "Caution"
    ELSE "Critical"

TableHeart(h) ==
    IF 6000 <= h /\ h <= 10000 THEN "Normal"
    ELSE IF (10000 < h /\ h <= 12000) \/ (5000 <= h /\ h < 6000) THEN "Caution"
    ELSE "Critical"

TableOxygen(h) ==
    IF h >= 9500 THEN "Normal"
    ELSE IF 9000 <= h /\ h < 9500 THEN "Caution"
    ELSE "Critical"

TierColor(tier) ==
    CASE tier = "Normal" -> "green"
      [] tier = "Caution" -> "orange"
      [] tier = "Critical" -> "red"
      [] OTHER -> "gray"

Tier(tier) == <<TierColor(tier), tier>>

InTempGroup(l) == Contains("temp", l)
InHeartGroup(l) == ContainsAny({"heart", "hr", "bpm", "pulse"}, l)
InOxygenGroup(l) == ContainsAny({"spo2", "oxygen", "o2"}, l)

\* the groups of the older variant
InHeartGroupV1(l) == ContainsAny({"heart", "hr"}, l)
InOxygenGroupV1(l) == ContainsAny({"spo2", "oxygen"}, l)

\* get_indicator of src/DC/app.py has returned for a number
ClassifiedNumber == ret # None /\ ret.fn = "DC" /\ call.value.kind = "num"

\* C1: for every label and every number of the grid, get_indicator returns the
\* tier of the threshold table: the temperature table for a label with "temp",
\* the heart table for a label with heart/hr/bpm/pulse and no "temp", the oxygen
\* table for a label with spo2/oxygen/o2 and no earlier keyword; the boundary
\* values 37.5, 37.51, 59.9, 49.9, 94.9 and 89.9 fall as stated, and the status
\* is the name of the tier whose colour is returned.
C1_ThresholdTable ==
    ClassifiedNumber =>
        LET l == call.param
            h == call.value.num
        IN  /\ InTempGroup(l) => ret.result = Tier(TableTemp(h))
            /\ (InHeartGroup(l) /\ ~InTempGroup(l)) => ret.result = Tier(TableHeart(h))
            /\ (InOxygenGroup(l) /\ ~InHeartGroup(l) /\ ~InTempGroup(l))
                   => ret.result = Tier(TableOxygen(h))
            /\ (l = "temp" /\ h = 3750) => ret.result = <<"green", "Normal">>
            /\ (l = "temp" /\ h = 3751) => ret.result = <<"orange", "Caution">>
            /\ (l = "heart_rate" /\ h = 5990) => ret.result = <<"orange", "Caution">>
            /\ (l = "heart_rate" /\ h = 4990) => ret.result = <<"red", "Critical">>
            /\ (l = "spo2" /\ h = 9490) => ret.result = <<"orange", "Caution">>
            /\ (l = "spo2" /\ h = 8990) => ret.result = <<"red", "Critical">>
            /\ ret.result[1] = TierColor(ret.result[2])

\* get_indicator("temp", 37.5) has returned Normal
C1_Witness ==
    /\ ClassifiedNumber
    /\ call.param = "temp"
    /\ call.value = Num(Dec(37, 50))
    /\ ret.result = <<"green", "Normal">>

-----------------------------------------------------------------------------
(* Column inference *)

ClaimKeywords == {"temp", "heart", "hr", "spo2", "oxygen", "o2", "bpm", "pulse"}

HasTime(c) == Contains("time", c)
IsLatName(c) == c = "lat" \/ c = "latitude"
IsLonName(c) == c = "lon" \/ c = "long" \/ c = "longitude" \/ c = "lng"
HasKeyword(c) == \E k \in ClaimKeywords : Contains(k, c)

\* the first label of s, in column order, that P holds of; none when there is none
FirstLabel(s, P(_)) ==
    IF \E i \in 1..Len(s) : P(s[i])
    THEN s[CHOOSE i \in 1..Len(s) : P(s[i]) /\ \A j \in 1..(i - 1) : ~P(s[j])]
    ELSE NoneStr

\* the position in s of the k-th label that P holds of
KthPosition(s, P(_), k) ==
    CHOOSE i \in 1..Len(s) :
        P(s[i]) /\ Cardinality({j \in 1..(i - 1) : P(s[j])}) = k - 1

\* the column roles have been inferred
Inferred == ret # None

\* C7: for every list of normalised labels, time_column is the first label that
\* contains "time", lat_column the first equal to lat or latitude, lon_column the
\* first equal to lon, long, longitude or lng, parameter_columns the labels with
\* a keyword, all of them and in column order, and the primary parameter column
\* the first of those; none where there is no such label.
C7_ColumnInference ==
    Inferred =>
        LET s == call.columns
            n == Cardinality({i \in 1..Len(s) : HasKeyword(s[i])})
        IN  /\ ret.time_col = FirstLabel(s, HasTime)
            /\ ret.lat_col = FirstLabel(s, IsLatName)
            /\ ret.lon_col = FirstLabel(s, IsLonName)
            /\ Len(ret.param_cols) = n
            /\ \A k \in 1..n : ret.param_cols[k] = s[KthPosition(s, HasKeyword, k)]
            /\ ret.color_col = FirstLabel(s, HasKeyword)
            /\ ret.color_col = (IF n = 0 THEN NoneStr ELSE ret.param_cols[1])

\* the labels timestamp, lat, lon, heartrate have been inferred as the example says
C7_Witness ==
    /\ Inferred
    /\ call.columns = <<"timestamp", "lat", "lon", "heartrate">>
    /\ ret.time_col = "timestamp"
    /\ ret.lat_col = "lat"
    /\ ret.lon_col = "lon"
    /\ ret.param_cols = <<"heartrate">>
    /\ ret.color_col = "heartrate"

-----------------------------------------------------------------------------
(* The upload cycle *)

\* a call has ended for an upload
CycleEnded == pc = "done" /\ contents # None

\* a call has ended whose upload was decoded to a table
DecodedCycleEnded == pc = "done" /\ df # None

CommaCount(s) == Cardinality({i \in 1..Len(s) : SubSeq(s, i, i) = ","})

\* the base64 part of a payload of the form prefix-comma-base64
Base64Part(s) ==
    LET i == CHOOSE k \in 1..Len(s) : SubSeq(s, k, k) = ","
    IN  SubSeq(s, i + 1, Len(s))

\* the payload is not of the form prefix-comma-base64, or its base64 is malformed
Malformed(payload) ==
    \/ CommaCount(payload.text) # 1
    \/ Len(Base64Part(payload.text)) % 4 # 0

\* what the payload's bytes are
BytesFormat(payload) ==
    IF Len(Base64Part(payload.text)) = 0 THEN "empty" ELSE payload.blob.format

IsDelimitedName(f) == EndsWith(f, ".csv")
IsSpreadsheetName(f) == EndsWith(f, ".xls") \/ EndsWith(f, ".xlsx")

\* some step of decoding or parsing the upload throws
CannotBeDecoded(payload, f) ==
    \/ Malformed(payload)
    \/ IsDelimitedName(f) /\ BytesFormat(payload) # "csv"
    \/ IsSpreadsheetName(f) /\ BytesFormat(payload) # "xlsx"

StartsWith(s, prefix) == Len(prefix) <= Len(s) /\ SubSeq(s, 1, Len(prefix)) = prefix

\* "Error reading file: <cause>" with a cause
IsFileParseError(message) ==
    StartsWith(message, "Error reading file: ") /\ Len(message) > Len("Error reading file: ")

\* C3: an upload that cannot be decoded or parsed, whatever step throws, ends
\* with the pair (no table, "Error reading file: <cause>"); no exception
\* escapes parse_contents.
C3_ParseErrorsAreCaught ==
    (CycleEnded /\ CannotBeDecoded(contents, filename)) =>
        /\ outcome.kind = "return"
        /\ IsFileParseError(outcome.file_info)
        /\ df = None

\* C4: an upload whose filename ends in none of .csv, .xls, .xlsx ends, for every
\* payload, with the unsupported-file-type message naming the file, with no
\* table, no cards and no chart, and its payload is never parsed as a table.
C4_UnsupportedFileType ==
    (CycleEnded /\ ~IsDelimitedName(filename) /\ ~IsSpreadsheetName(filename)) =>
        /\ outcome = Returned("Unsupported file type: " \o filename,
                              NoChildren, NoChildren, BlankFigure)
        /\ df = None

\* every entry of the column is missing
AllMissing(frame, col) ==
    \A j \in Positions(frame, col) : \A i \in 1..Len(frame.rows) :
        frame.rows[i][j].kind # "num"

\* C5: the card of a parameter column with no numeric value (here: of a table
\* with rows) reports "no data": it carries none of the tiers Normal, Caution,
\* Critical, and its mean is not 0.
C5_NoDataCard ==
    \A k \in 1..Len(cards) :
        LET col == SelectSeq(df.columns, HasKeyword)[k]
        IN  (Len(df.rows) > 0 /\ AllMissing(df, col)) =>
                /\ cards[k].status \notin {"Normal", "Caution", "Critical"}
                /\ cards[k].mean_val # Num(0)

\* the three ways a cycle may end
BlankState ==
    /\ contents = None
    /\ outcome = Returned("", NoChildren, NoChildren, BlankFigure)

OneError ==
    /\ contents # None
    /\ outcome.kind = "return"
    /\ outcome.file_info # ""
    /\ ~StartsWith(outcome.file_info, "Uploaded: ")
    /\ outcome.data_preview = NoChildren
    /\ outcome.indicator_cards = NoChildren
    /\ outcome.figure = BlankFigure

FullSuccess ==
    /\ contents # None
    /\ outcome.kind = "return"
    /\ outcome.file_info = "Uploaded: " \o filename
    /\ outcome.data_preview.kind = "DataTable"
    /\ outcome.indicator_cards.kind = "Row"
    /\ outcome.figure.kind \in {"line", "scatter_mapbox"}

\* C6: every call of update_dashboard, for any payload, filename and table (one
\* with no rows too), ends blank (no file), with one error and nothing else, or
\* in full success with message, preview, cards and chart.
C6_ThreeOutcomes ==
    pc = "done" => (BlankState \/ OneError \/ FullSuccess)

-----------------------------------------------------------------------------
(* Normalisation *)

UpperLetters == {SubSeq(UpperCase, i, i) : i \in 1..Len(UpperCase)}
IsUpper(ch) == ch \in UpperLetters

\* a label in lower case with no space at either end
IsNormalizedLabel(c) ==
    /\ \A i \in 1..Len(c) : ~IsUpper(SubSeq(c, i, i))
    /\ Len(c) > 0 => (SubSeq(c, 1, 1) # " " /\ SubSeq(c, Len(c), Len(c)) # " ")

SameLetter(x, y) ==
    \/ x = y
    \/ IsUpper(x) /\ IndexIn(x, UpperCase) = IndexIn(y, LowerCase)

\* d is c in lower case with the spaces at its ends dropped
IsNormalFormOf(d, c) ==
    /\ IsNormalizedLabel(d)
    /\ \E a \in 0..Len(c) : \E b \in 0..(Len(c) - a) :
          /\ Len(d) = Len(c) - a - b
          /\ \A i \in 1..a : SubSeq(c, i, i) = " "
          /\ \A i \in (Len(c) - b + 1)..Len(c) : SubSeq(c, i, i) = " "
          /\ \A i \in 1..Len(d) : SameLetter(SubSeq(c, a + i, a + i), SubSeq(d, i, i))

AfterNormalization == {"preview", "cards", "infer", "chart", "return"}

\* nothing of the preview, the cards, the roles or the row tags exists
NothingDerived ==
    /\ table = None
    /\ cards = <<>>
    /\ time_col = NoneStr /\ lat_col = NoneStr /\ lon_col = NoneStr
    /\ param_cols = <<>> /\ color_col = NoneStr
    /\ signal = None

NormalizationStep ==
    \* the decode, when it succeeds, hands the table as decoded to the normalisation
    /\ (pc = "start" /\ pc' # "done") =>
          (pc' = "normalize" /\ df' = contents.blob.frame)
    \* normalisation runs before anything is derived, renames every label to its
    \* normal form, and keeps the columns' number and order and every cell
    /\ pc = "normalize" =>
          /\ NothingDerived
          /\ pc' = "preview"
          /\ Len(df'.columns) = Len(df.columns)
          /\ \A j \in 1..Len(df.columns) : IsNormalFormOf(df'.columns[j], df.columns[j])
          /\ df'.rows = df.rows
    \* it runs once: the preview, the cards, the roles and the chart come after it,
    \* in this order, and none of them touches the labels again
    /\ pc' = "preview" => pc = "normalize"
    /\ pc' = "cards" => pc = "preview"
    /\ pc' = "infer" => pc = "cards"
    /\ pc' = "chart" => pc = "infer"
    /\ pc \in AfterNormalization => df' = df
    \* so every label the preview, the inference and the classifier see is normal
    /\ pc' \in AfterNormalization =>
          \A j \in 1..Len(df'.columns) : IsNormalizedLabel(df'.columns[j])
    \* a cycle that fails to decode derives nothing
    /\ (pc = "start" /\ pc' = "done") => (df' = None /\ NothingDerived')

\* C8: in a cycle that decodes, the labels are normalised (lower case, trimmed)
\* exactly once, right after the decode and before the preview, the inference
\* and the classification, which therefore see normalised labels only;
\* normalisation keeps the number and order of the columns and every cell; in a
\* cycle that fails to decode none of it happens.
C8_NormalizeOnceFirst == [][NormalizationStep]_vars

\* the labels "Timestamp", " Lat", "lon", "HR" of an upload have reached the
\* card loop as timestamp, lat, lon, hr
C8_Witness ==
    /\ pc = "cards"
    /\ contents.blob.frame.columns = WalkHeader
    /\ df.columns = <<"timestamp", "lat", "lon", "hr">>
    /\ df.rows = contents.blob.frame.rows
    /\ Len(df.rows) = MaxRows

-----------------------------------------------------------------------------
(* Row tags and cards *)

DistinctLabels(frame) ==
    \A i, j \in 1..Len(frame.columns) : frame.columns[i] = frame.columns[j] => i = j

\* C9: the per-row colouring is produced exactly when a time, a lat, a lon and a
\* primary parameter column are all there, and otherwise the cycle produces the
\* time series and tags no row; when it is produced, row i carries
\* classify(primary column, row i's own value), in row order.  (Stated for the
\* tables whose labels stay different.)
C9_RowColouring ==
    (DecodedCycleEnded /\ DistinctLabels(df)) =>
        LET s == df.columns
            primary == FirstLabel(s, HasKeyword)
            all4 == /\ FirstLabel(s, HasTime) # NoneStr
                    /\ FirstLabel(s, IsLatName) # NoneStr
                    /\ FirstLabel(s, IsLonName) # NoneStr
                    /\ primary # NoneStr
        IN  IF all4
            THEN /\ outcome.kind = "return"
                 /\ outcome.figure.kind = "scatter_mapbox"
                 /\ signal # None
                 /\ Len(signal.tags) = Len(df.rows)
                 /\ \A i \in 1..Len(df.rows) :
                        signal.tags[i] = get_indicator(primary, RowValue(df, i, primary))
            ELSE /\ outcome.kind = "return"
                 /\ outcome.figure.kind = "line"
                 /\ signal = None

\* C10: for every decoded table the cards are one card per column whose label
\* has a keyword, in column order and for no other column, each with the
\* column's label, its mean and classify(label, mean).  (Stated for the tables
\* with at least one row.)
C10_OneCardPerParameter ==
    (DecodedCycleEnded /\ Len(df.rows) > 0) =>
        /\ outcome.kind = "return"
        /\ outcome.indicator_cards.kind = "Row"
        /\ LET shown == outcome.indicator_cards.children
               params == SelectSeq(df.columns, HasKeyword)
           IN  /\ Len(shown) = Len(params)
               /\ \A k \in 1..Len(params) :
                      /\ shown[k].title = Capitalize(params[k])
                      /\ shown[k].mean_val = Mean(df, params[k])
                      /\ <<shown[k].color, shown[k].status>>
                             = get_indicator(params[k], Mean(df, params[k]))

====
